---- MODULE Spec2Model ----
(***************************************************************************)
(* A model of libmproxy/models/http.py: the HTTP message model             *)
(* (MessageMixin, HTTPRequest, HTTPResponse), the scoped decode helper     *)
(* (decoded) and the flow aggregate (HTTPFlow).                            *)
(*                                                                         *)
(* Strings (bodies, header values, paths, patterns) are sequences of       *)
(* one-character strings.  Python's None is the one-element sequence       *)
(* <<"None">>, which no string of the model equals.                        *)
(***************************************************************************)
EXTENDS Integers, Sequences, FiniteSets, TLC

VARIABLES
    msg,    \* the message under operation: [headers, body]
    pre,    \* the message as it was before the last operation
    op,     \* the last operation and its arguments
    ret,    \* what the last operation returned (a tagged tuple)
    ctx,    \* the scoped-decode helper in progress: [pc, ce, entry, block, raised]
    fs,     \* the flows and the objects they refer to: [msgs, odicts, flow, f2, steps]
    resp    \* the response under refresh: [headers, timestamp_start]

vars == <<msg, pre, op, ret, ctx, fs, resp>>

(***************************************************************************)
(* Bounds of the model.                                                    *)
(***************************************************************************)
MaxBodyLen == 2
MaxHeaders == 2
MaxOps == 2

(***************************************************************************)
(* Values.                                                                 *)
(***************************************************************************)
None == <<"None">>

gzip == <<"g", "z", "i", "p">>
deflate == <<"d", "e", "f", "l", "a", "t", "e">>
identity == <<"i", "d", "e", "n", "t", "i", "t", "y">>
br == <<"b", "r">>

\* netlib.encoding.ENCODINGS
ENCODINGS == {identity, gzip, deflate}

\* netlib.http.semantics.CONTENT_MISSING: a body that is not a byte string
\* and that Python treats as false.
CONTENT_MISSING == [kind |-> "missing", data |-> <<>>]

Bytes(s) == [kind |-> "bytes", data |-> s]

\* Python truthiness of a body: CONTENT_MISSING and the empty string are false.
Truthy(body) == body.kind = "bytes" /\ body.data # <<>>

RECURSIVE SumSeq(_)
SumSeq(s) == IF s = <<>> THEN 0 ELSE Head(s) + SumSeq(Tail(s))

SeqsUpTo(S, n) == UNION {[1..k -> S] : k \in 0..n}

(***************************************************************************)
(* The content codec (netlib.encoding).  A compressed stream is modelled   *)
(* as its plaintext behind a one-byte magic header: "G" for gzip, "D" for  *)
(* deflate.  Decoding a stream without the header fails (None).            *)
(***************************************************************************)
encoding_encode(e, content) ==
    CASE e = gzip -> <<"G">> \o content
      [] e = deflate -> <<"D">> \o content
      [] OTHER -> content

encoding_decode(e, content) ==
    CASE e = gzip ->
            IF content # <<>> /\ Head(content) = "G" THEN Tail(content) ELSE None
      [] e = deflate ->
            IF content # <<>> /\ Head(content) = "D" THEN Tail(content) ELSE None
      [] e = identity -> content
      [] OTHER -> None

(***************************************************************************)
(* libmproxy.utils.safe_subn, for a literal pattern: re.subn replaces the  *)
(* leftmost non-overlapping occurrences and returns <<new string, count>>. *)
(***************************************************************************)
RECURSIVE safe_subn(_, _, _)
safe_subn(pattern, repl, target) ==
    IF Len(target) < Len(pattern) THEN <<target, 0>>
    ELSE IF SubSeq(target, 1, Len(pattern)) = pattern
         THEN LET r == safe_subn(pattern, repl,
                                 SubSeq(target, Len(pattern) + 1, Len(target)))
              IN  <<repl \o r[1], r[2] + 1>>
         ELSE LET r == safe_subn(pattern, repl, Tail(target))
              IN  <<(<<Head(target)>>) \o r[1], r[2]>>

(***************************************************************************)
(* netlib.odict.ODictCaseless: an ordered list of <<name, value>> pairs    *)
(* whose names compare case-insensitively.                                 *)
(***************************************************************************)
Lower(name) ==
    CASE name = "Content-Encoding" -> "content-encoding"
      [] OTHER -> name

odict_get_all(headers, k) ==
    LET hit == SelectSeq(headers, LAMBDA h : Lower(h[1]) = Lower(k))
    IN  [i \in 1..Len(hit) |-> hit[i][2]]

odict_get_first(headers, k) ==
    LET all == odict_get_all(headers, k)
    IN  IF all = <<>> THEN None ELSE all[1]

odict_in(headers, k) == odict_get_all(headers, k) # <<>>

odict_delitem(headers, k) ==
    SelectSeq(headers, LAMBDA h : Lower(h[1]) # Lower(k))

odict_setitem(headers, k, valuelist) ==
    odict_delitem(headers, k) \o [i \in 1..Len(valuelist) |-> <<k, valuelist[i]>>]

odict_replace(headers, pattern, repl) ==
    [lst |-> [i \in 1..Len(headers) |->
                <<headers[i][1], safe_subn(pattern, repl, headers[i][2])[1]>>],
     count |-> SumSeq([i \in 1..Len(headers) |->
                safe_subn(pattern, repl, headers[i][2])[2]])]

(***************************************************************************)
(* MessageMixin.  Every operation maps a message to [msg, ret].            *)
(***************************************************************************)
\* StateObject.get_state: the declared attributes, the long ones (the body)
\* left out of a short snapshot.
StateObject_get_state(m, short) ==
    IF short THEN ("headers" :> m.headers)
    ELSE ("headers" :> m.headers) @@ ("body" :> m.body)

get_state_missingIsZero(m, short) ==
    LET st == StateObject_get_state(m, short) IN
    IF short
    THEN IF m.body.kind = "missing"
         THEN st @@ ("contentLength" :> <<"int", 0>>)
         ELSE st @@ ("contentLength" :> <<"int", Len(m.body.data)>>)
    ELSE st

MessageMixin_get_state(m, short) ==
    LET st == StateObject_get_state(m, short) IN
    IF short
    THEN IF Truthy(m.body)
         THEN st @@ ("contentLength" :> <<"int", Len(m.body.data)>>)
         ELSE IF m.body = CONTENT_MISSING
              THEN st @@ ("contentLength" :> None)
              ELSE st @@ ("contentLength" :> <<"int", 0>>)
    ELSE st

MessageMixin_get_decoded_content(m) ==
    LET ce == odict_get_first(m.headers, "content-encoding") IN
    IF ~Truthy(m.body) \/ ce \notin ENCODINGS
    THEN m.body
    ELSE LET data == encoding_decode(ce, m.body.data)
         IN  IF data = None THEN [kind |-> "None", data |-> <<>>] ELSE Bytes(data)

decode_dropsHeaderOnFailure(m) ==
    LET ce == odict_get_first(m.headers, "content-encoding") IN
    IF ~Truthy(m.body) \/ ce \notin ENCODINGS
    THEN [msg |-> m, ret |-> FALSE]
    ELSE LET data == encoding_decode(ce, m.body.data) IN
         IF data = None
         THEN [msg |-> [m EXCEPT !.headers = odict_delitem(@, "content-encoding")],
               ret |-> FALSE]
         ELSE [msg |-> [m EXCEPT !.body = Bytes(data),
                                 !.headers = odict_delitem(@, "content-encoding")],
               ret |-> TRUE]

MessageMixin_decode(m) ==
    LET ce == odict_get_first(m.headers, "content-encoding") IN
    IF ~Truthy(m.body) \/ ce \notin ENCODINGS
    THEN [msg |-> m, ret |-> FALSE]
    ELSE LET data == encoding_decode(ce, m.body.data) IN
         IF data = None
         THEN [msg |-> m, ret |-> FALSE]
         ELSE [msg |-> [m EXCEPT !.body = Bytes(data),
                                 !.headers = odict_delitem(@, "content-encoding")],
               ret |-> TRUE]

\* The codec takes byte strings: encode is applied to captured bodies only.
MessageMixin_encode(m, e) ==
    [m EXCEPT !.body = Bytes(encoding_encode(e, m.body.data)),
              !.headers = odict_setitem(@, "content-encoding", <<e>>)]

(***************************************************************************)
(* decoded: the scoped decode helper.  __init__ remembers the first        *)
(* content-encoding value when it is a supported encoding, __enter__       *)
(* decodes and __exit__ re-encodes when one was remembered.                *)
(***************************************************************************)
decoded_init(m) ==
    LET ce == odict_get_first(m.headers, "content-encoding")
    IN  IF ce \in ENCODINGS THEN ce ELSE None

decoded_enter(ce, m) ==
    IF ce # None THEN MessageMixin_decode(m).msg ELSE m

decoded_exit_bodyOnly(ce, m) ==
    IF ce # None
    THEN [m EXCEPT !.body = Bytes(encoding_encode(ce, m.body.data))]
    ELSE m

decoded_exit(ce, m) ==
    IF ce # None THEN MessageMixin_encode(m, ce) ELSE m

\* The block of the with statement: the substitution in the body.
replace_block(m, pattern, repl) ==
    [msg |-> [m EXCEPT !.body = Bytes(safe_subn(pattern, repl, m.body.data)[1])],
     ret |-> safe_subn(pattern, repl, m.body.data)[2]]

\* Leaving the with statement, c being the message and count of the block.
replace_exit(ce, c) == [msg |-> decoded_exit(ce, c.msg), ret |-> c.ret]

\* c += self.headers.replace(pattern, repl)
replace_headers(c, pattern, repl) ==
    [msg |-> [c.msg EXCEPT !.headers = odict_replace(@, pattern, repl).lst],
     ret |-> c.ret + odict_replace(c.msg.headers, pattern, repl).count]

MessageMixin_replace(m, pattern, repl) ==
    replace_headers(
        replace_exit(decoded_init(m),
                     replace_block(decoded_enter(decoded_init(m), m), pattern, repl)),
        pattern, repl)

(***************************************************************************)
(* The messages and inputs the operations are applied to.                  *)
(***************************************************************************)
BodyBytes == {"a", "b", "G", "D"}

HeaderPairs ==
    { <<"content-encoding", gzip>>,
      <<"Content-Encoding", deflate>>,
      <<"content-encoding", identity>>,
      <<"content-encoding", br>>,
      <<"x-a", <<"a", "b">>>> }

Bodies == {Bytes(s) : s \in SeqsUpTo(BodyBytes, MaxBodyLen)} \cup {CONTENT_MISSING}

Messages == [headers : SeqsUpTo(HeaderPairs, MaxHeaders), body : Bodies]

Patterns == { <<"a">>, <<"a", "b">>, <<"z">>, deflate }

Replacements == { <<>>, <<"b">> }

\* What the block wrapped by the helper assigns to the body.
BlockBodies == { <<>>, <<"a">>, <<"G", "b">> }

NoOp == [name |-> "init", pattern |-> <<>>, repl |-> <<>>, e |-> None, short |-> FALSE]

Idle == [pc |-> "idle", ce |-> None, entry |-> None, block |-> None, raised |-> FALSE]

Init ==
    /\ msg \in Messages
    /\ pre = msg
    /\ op = NoOp
    /\ ret = None
    /\ ctx = Idle
    /\ fs = None
    /\ resp = None

Fresh == op.name = "init" /\ ctx.pc = "idle"

GetState ==
    \E short \in BOOLEAN :
        /\ Fresh
        /\ ret' = <<"state", MessageMixin_get_state(msg, short)>>
        /\ op' = [NoOp EXCEPT !.name = "get_state", !.short = short]
        /\ pre' = msg
        /\ UNCHANGED <<msg, ctx, fs, resp>>

GetDecodedContent ==
    /\ Fresh
    /\ ret' = <<"body", MessageMixin_get_decoded_content(msg)>>
    /\ op' = [NoOp EXCEPT !.name = "get_decoded_content"]
    /\ pre' = msg
    /\ UNCHANGED <<msg, ctx, fs, resp>>

Decode ==
    /\ Fresh
    /\ \E r \in {MessageMixin_decode(msg)} :
        /\ msg' = r.msg
        /\ ret' = <<"bool", r.ret>>
    /\ op' = [NoOp EXCEPT !.name = "decode"]
    /\ pre' = msg
    /\ UNCHANGED <<ctx, fs, resp>>

\* The codec is defined on byte strings: encode is applied to captured bodies.
Encode ==
    \E e \in ENCODINGS :
        /\ Fresh
        /\ msg.body.kind = "bytes"
        /\ msg' = MessageMixin_encode(msg, e)
        /\ ret' = None
        /\ op' = [NoOp EXCEPT !.name = "encode", !.e = e]
        /\ pre' = msg
        /\ UNCHANGED <<ctx, fs, resp>>

\* safe_subn is defined on strings: replace is applied to captured bodies.
Replace ==
    \E pattern \in Patterns, repl \in Replacements :
        /\ Fresh
        /\ msg.body.kind = "bytes"
        /\ \E r \in {MessageMixin_replace(msg, pattern, repl)} :
            /\ msg' = r.msg
            /\ ret' = <<"int", r.ret>>
        /\ op' = [NoOp EXCEPT !.name = "replace", !.pattern = pattern, !.repl = repl]
        /\ pre' = msg
        /\ UNCHANGED <<ctx, fs, resp>>

\* with decoded(msg): ... , one step at a time.
DecodedInit ==
    /\ Fresh
    /\ msg.body.kind = "bytes" \/ decoded_init(msg) = None
    /\ ctx' = [Idle EXCEPT !.pc = "created", !.ce = decoded_init(msg), !.entry = msg]
    /\ op' = [NoOp EXCEPT !.name = "decoded"]
    /\ pre' = msg
    /\ UNCHANGED <<msg, ret, fs, resp>>

DecodedEnter ==
    /\ ctx.pc = "created"
    /\ msg' = decoded_enter(ctx.ce, msg)
    /\ ctx' = [ctx EXCEPT !.pc = "entered"]
    /\ UNCHANGED <<pre, op, ret, fs, resp>>

\* The wrapped block: it may assign the body, it may set a content-encoding
\* header of its own, and it finishes normally or raises.
Block ==
    \E assign \in BOOLEAN, b \in BlockBodies, setHeader \in BOOLEAN, raised \in BOOLEAN :
        /\ ctx.pc = "entered"
        /\ LET m1 == IF assign THEN [msg EXCEPT !.body = Bytes(b)] ELSE msg
               m2 == IF setHeader
                     THEN [m1 EXCEPT !.headers = odict_setitem(@, "content-encoding", <<br>>)]
                     ELSE m1
           IN  /\ msg' = m2
               /\ ctx' = [ctx EXCEPT !.pc = "left", !.block = m2, !.raised = raised]
        /\ UNCHANGED <<pre, op, ret, fs, resp>>

\* __exit__ runs on both ways out of the block; it returns None, so an
\* exception raised by the block propagates afterwards.
DecodedExit ==
    /\ ctx.pc = "left"
    /\ msg' = decoded_exit(ctx.ce, msg)
    /\ ctx' = [ctx EXCEPT !.pc = "exited"]
    /\ ret' = IF ctx.raised THEN <<"raise", "Exception">> ELSE None
    /\ UNCHANGED <<pre, op, fs, resp>>

Next ==
    \/ GetState
    \/ GetDecodedContent
    \/ Decode
    \/ Encode
    \/ Replace
    \/ DecodedInit
    \/ DecodedEnter
    \/ Block
    \/ DecodedExit

Spec == Init /\ [][Next]_vars

(***************************************************************************)
(* Flows.  Messages and header lists are objects: fs.msgs and fs.odicts    *)
(* are the stores, a reference is an index into them and 0 is None.  A     *)
(* message object holds a reference to its header list, so that two        *)
(* messages may share one.                                                 *)
(***************************************************************************)
Deref(h, ref) ==
    [headers |-> h.odicts[h.msgs[ref].headers],
     body |-> h.msgs[ref].body,
     path |-> h.msgs[ref].path]

\* The message operations mutate the header list in place and assign the
\* body and path attributes of the message object.
Apply(h, ref, m) ==
    [h EXCEPT !.odicts[h.msgs[ref].headers] = m.headers,
              !.msgs[ref].body = m.body,
              !.msgs[ref].path = m.path]

copy_sharedHeaders(h, ref) ==
    [heap |-> [h EXCEPT !.msgs = Append(@, h.msgs[ref])],
     ref |-> Len(h.msgs) + 1]

\* copy.copy(self) makes a new message object with the same attributes;
\* the header list is then copied into an object of its own.
MessageMixin_copy(h, ref) ==
    LET c == h.msgs[ref]
        headers == Len(h.odicts) + 1
    IN  [heap |-> [h EXCEPT !.odicts = Append(@, h.odicts[c.headers]),
                            !.msgs = Append(@, [c EXCEPT !.headers = headers])],
         ref |-> Len(h.msgs) + 1]

\* The substitution in the path, c being the message and count so far.
replace_path(c, pattern, repl) ==
    [msg |-> [c.msg EXCEPT !.path = safe_subn(pattern, repl, @)[1]],
     ret |-> c.ret + safe_subn(pattern, repl, c.msg.path)[2]]

HTTPRequest_replace(m, pattern, repl) ==
    replace_path(MessageMixin_replace(m, pattern, repl), pattern, repl)

\* Flow.copy: a shallow copy, the connection references shared.
Flow_copy(f) == f

HTTPFlow_copy(h, f) ==
    LET f0 == Flow_copy(f)
        rq == IF f.request # 0
              THEN MessageMixin_copy(h, f.request)
              ELSE [heap |-> h, ref |-> f0.request]
        rs == IF f.response # 0
              THEN MessageMixin_copy(rq.heap, f.response)
              ELSE [heap |-> rq.heap, ref |-> f0.response]
    IN  [heap |-> rs.heap,
         flow |-> [f0 EXCEPT !.request = rq.ref, !.response = rs.ref]]

\* A compiled filter applied to a flow: ~q matches a request without a
\* response, ~s matches a response.
filt_apply(c, f) ==
    CASE c[2] = "q" -> f.request # 0 /\ f.response = 0
      [] c[2] = "s" -> f.response # 0
      [] OTHER -> FALSE

\* filt.parse: the results the filter engine may give for an expression,
\* None when it does not compile.  Whether the engine compiles the empty
\* expression is left open: every outcome is allowed.
filt_parse(s) ==
    CASE s = "~q" -> {<<"filt", "q">>}
      [] s = "~s" -> {<<"filt", "s">>}
      [] s = "" -> {None, <<"filt", "q">>, <<"filt", "s">>}
      [] OTHER -> {None}

\* filt is None, <<"str", expression>> or a compiled filter <<"filt", kind>>;
\* compiled is what filt.parse gave for the expression.
match_invalidIsNoMatch(f, filt, compiled) ==
    IF filt[1] = "str"
    THEN IF compiled = None
         THEN <<"bool", FALSE>>
         ELSE <<"bool", filt_apply(compiled, f)>>
    ELSE IF filt # None
         THEN <<"bool", filt_apply(filt, f)>>
         ELSE <<"bool", TRUE>>

HTTPFlow_match(f, filt, compiled) ==
    IF filt[1] = "str"
    THEN IF compiled = None
         THEN <<"raise", "ValueError">>
         ELSE <<"bool", filt_apply(compiled, f)>>
    ELSE IF filt # None
         THEN <<"bool", filt_apply(filt, f)>>
         ELSE <<"bool", TRUE>>

\* The result of a message replace stored: the message written back to the
\* object ref, its count added to c.
replace_store(h, ref, c, r) == [heap |-> Apply(h, ref, r.msg), ret |-> c + r.ret]

replace_responseOnly(h, f, c, pattern, repl) ==
    IF f.response # 0
    THEN replace_store(h, f.response, 0,
                       MessageMixin_replace(Deref(h, f.response), pattern, repl))
    ELSE [heap |-> h, ret |-> c]

\* if self.response: c += self.response.replace(pattern, repl)
HTTPFlow_replace_response(h, f, c, pattern, repl) ==
    IF f.response # 0
    THEN replace_store(h, f.response, c,
                       MessageMixin_replace(Deref(h, f.response), pattern, repl))
    ELSE [heap |-> h, ret |-> c]

\* rq is what self.request.replace gave: [heap, ret].
HTTPFlow_replace_request(rq, f, pattern, repl) ==
    HTTPFlow_replace_response(rq.heap, f, rq.ret, pattern, repl)

HTTPFlow_replace(h, f, pattern, repl) ==
    HTTPFlow_replace_request(
        replace_store(h, f.request, 0,
                      HTTPRequest_replace(Deref(h, f.request), pattern, repl)),
        f, pattern, repl)

(***************************************************************************)
(* The flows the operations are applied to.                                *)
(***************************************************************************)
NoFlow == [request |-> 0, response |-> 0, client_conn |-> 0, server_conn |-> 0]

FlowHeaders ==
    { <<>>,
      <<<<"content-encoding", gzip>>>>,
      <<<<"x-a", <<"a", "b">>>>, <<"content-encoding", gzip>>>> }

FlowBodies == { Bytes(<<"G", "a">>), Bytes(<<"a", "b">>) }

Paths == { <<"/", "a">> }

Requests == [headers : FlowHeaders, body : FlowBodies, path : Paths]

Responses == [headers : FlowHeaders, body : FlowBodies, path : {None}]

FlowPatterns == { <<"a">> }

FlowReplacements == { <<"b">> }

Filters ==
    { None, <<"str", "">>, <<"str", "~s">>, <<"str", "~invalid[[[">>, <<"filt", "q">> }

Sides == {"flow", "f2"}

\* The stores holding the given messages, each with a header list of its own.
NewStore(ms) ==
    [msgs |-> [i \in 1..Len(ms) |->
                [headers |-> i, body |-> ms[i].body, path |-> ms[i].path]],
     odicts |-> [i \in 1..Len(ms) |-> ms[i].headers]]

FlowNoOp ==
    [name |-> "init", side |-> "flow", which |-> "request",
     pattern |-> <<>>, repl |-> <<>>, e |-> None, filt |-> None, compiled |-> None]

FlowInit ==
    /\ \E rq \in SeqsUpTo(Requests, 1), rs \in SeqsUpTo(Responses, 1) :
          LET st == NewStore(rq \o rs) IN
          fs = [msgs |-> st.msgs,
                odicts |-> st.odicts,
                flow |-> [request |-> IF rq = <<>> THEN 0 ELSE 1,
                          response |-> IF rs = <<>> THEN 0 ELSE Len(rq) + 1,
                          client_conn |-> 1,
                          server_conn |-> 2],
                f2 |-> NoFlow,
                steps |-> 0]
    /\ pre = fs
    /\ op = FlowNoOp
    /\ ret = None
    /\ msg = None
    /\ ctx = Idle
    /\ resp = None

SideFlow(h, side) == IF side = "flow" THEN h.flow ELSE h.f2

Copy ==
    /\ fs.f2 = NoFlow
    /\ \E c \in {HTTPFlow_copy(fs, fs.flow)} :
        fs' = [c.heap EXCEPT !.f2 = c.flow]
    /\ pre' = fs
    /\ op' = [FlowNoOp EXCEPT !.name = "copy"]
    /\ ret' = None
    /\ UNCHANGED <<msg, ctx, resp>>

\* decode, encode or replace on the request or the response of a flow.
MessageOp ==
    \E side \in Sides, which \in {"request", "response"},
       name \in {"decode", "encode", "replace"}, pattern \in FlowPatterns,
       repl \in FlowReplacements :
        \E ref \in {IF which = "request" THEN SideFlow(fs, side).request
                                         ELSE SideFlow(fs, side).response} :
            /\ fs.steps < MaxOps
            /\ ref # 0
            /\ \E r \in { CASE name = "decode" ->
                                [msg |-> MessageMixin_decode(Deref(fs, ref)).msg,
                                 ret |-> <<"bool", MessageMixin_decode(Deref(fs, ref)).ret>>]
                           [] name = "encode" ->
                                [msg |-> MessageMixin_encode(Deref(fs, ref), gzip),
                                 ret |-> None]
                           [] name = "replace" /\ which = "request" ->
                                HTTPRequest_replace(Deref(fs, ref), pattern, repl)
                           [] OTHER ->
                                MessageMixin_replace(Deref(fs, ref), pattern, repl) } :
                  /\ fs' = [Apply(fs, ref, r.msg) EXCEPT !.steps = @ + 1]
                  /\ ret' = IF name = "replace" THEN <<"int", r.ret>> ELSE r.ret
            /\ pre' = fs
            /\ op' = [FlowNoOp EXCEPT !.name = name, !.side = side, !.which = which,
                                      !.pattern = pattern, !.repl = repl,
                                      !.e = IF name = "encode" THEN gzip ELSE None]
            /\ UNCHANGED <<msg, ctx, resp>>

\* flow.replace(pattern, repl); without a request, self.request.replace
\* raises AttributeError before anything is changed.
FlowReplace ==
    \E side \in Sides, pattern \in FlowPatterns, repl \in FlowReplacements :
        LET f == SideFlow(fs, side) IN
        /\ fs.steps < MaxOps
        /\ f # NoFlow
        /\ IF f.request = 0
           THEN /\ fs' = [fs EXCEPT !.steps = @ + 1]
                /\ ret' = <<"raise", "AttributeError">>
           ELSE \E c \in {HTTPFlow_replace(fs, f, pattern, repl)} :
                /\ fs' = [c.heap EXCEPT !.steps = @ + 1]
                /\ ret' = <<"int", c.ret>>
        /\ pre' = fs
        /\ op' = [FlowNoOp EXCEPT !.name = "flow_replace", !.side = side,
                                  !.pattern = pattern, !.repl = repl]
        /\ UNCHANGED <<msg, ctx, resp>>

Match ==
    \E side \in Sides, filt \in Filters :
        LET f == SideFlow(fs, side) IN
        /\ fs.steps < MaxOps
        /\ f # NoFlow
        /\ \E compiled \in (IF filt[1] = "str" THEN filt_parse(filt[2]) ELSE {None}) :
              /\ ret' = HTTPFlow_match(f, filt, compiled)
              /\ op' = [FlowNoOp EXCEPT !.name = "match", !.side = side,
                                        !.filt = filt, !.compiled = compiled]
        /\ fs' = [fs EXCEPT !.steps = @ + 1]
        /\ pre' = fs
        /\ UNCHANGED <<msg, ctx, resp>>

FlowNext ==
    \/ Copy
    \/ MessageOp
    \/ FlowReplace
    \/ Match

FlowSpec == FlowInit /\ [][FlowNext]_vars

(***************************************************************************)
(* HTTPResponse.refresh.  Times are whole seconds.  A header value is      *)
(* [kind, wall, tz, expires]: a date string showing the wall-clock time    *)
(* wall at the zone offset tz (kind "date"), a string that is no date      *)
(* (kind "text"), or a cookie (kind "cookie") whose expires attribute is   *)
(* <<>> when absent and <<value>> otherwise.                               *)
(***************************************************************************)
DateStr(wall, tz) == [kind |-> "date", wall |-> wall, tz |-> tz, expires |-> <<>>]

Text == [kind |-> "text", wall |-> 0, tz |-> 0, expires |-> <<>>]

CookieStr(expires) == [kind |-> "cookie", wall |-> 0, tz |-> 0, expires |-> expires]

\* email.utils.parsedate_tz: the fields of a date string, None otherwise.
parsedate_tz(v) == IF v.kind = "date" THEN <<v.wall, v.tz>> ELSE None

\* email.utils.mktime_tz: the UTC timestamp of the parsed fields.
mktime_tz(d) == d[1] - d[2]

\* email.utils.formatdate: the date string of a timestamp, in UTC.
formatdate(t) == DateStr(t, 0)

HTTPResponse_refresh_cookie(c, delta) ==
    IF c.expires # <<>>
    THEN LET d == parsedate_tz(c.expires[1]) IN
         IF d # None
         THEN [c EXCEPT !.expires = <<formatdate(mktime_tz(d) + delta)>>]
         ELSE [c EXCEPT !.expires = <<>>]
    ELSE c

refresh_headers == <<"date", "expires", "last-modified">>

RECURSIVE RefreshDates(_, _, _)
RefreshDates(headers, names, delta) ==
    IF names = <<>> THEN headers
    ELSE LET i == Head(names)
             d == parsedate_tz(odict_get_all(headers, i)[1])
             h == IF odict_in(headers, i) /\ d # None
                  THEN odict_setitem(headers, i, <<formatdate(mktime_tz(d) + delta)>>)
                  ELSE headers
         IN  RefreshDates(h, Tail(names), delta)

\* now is <<>> when omitted and <<t>> when supplied; clock is time.time().
HTTPResponse_refresh(r, now, clock) ==
    LET now1  == IF now = <<>> \/ now = <<0>> THEN clock ELSE now[1]
        delta == now1 - r.timestamp_start
        h     == RefreshDates(r.headers, refresh_headers, delta)
        old   == odict_get_all(h, "set-cookie")
        c     == [i \in 1..Len(old) |-> HTTPResponse_refresh_cookie(old[i], delta)]
    IN  [r EXCEPT !.headers = IF c # <<>> THEN odict_setitem(h, "set-cookie", c) ELSE h]

RefreshHeaderPairs ==
    { <<"date", DateStr(100, 0)>>,
      <<"date", DateStr(160, 60)>>,
      <<"date", Text>>,
      <<"expires", DateStr(200, 0)>>,
      <<"last-modified", Text>>,
      <<"set-cookie", CookieStr(<<>>)>>,
      <<"set-cookie", CookieStr(<<DateStr(500, 0)>>)>>,
      <<"set-cookie", CookieStr(<<Text>>)>>,
      <<"x-a", Text>> }

Responses9 ==
    [headers : SeqsUpTo(RefreshHeaderPairs, MaxHeaders), timestamp_start : {100, 110}]

Nows == { <<>>, <<0>>, <<110>>, <<3700>> }

Clock == { 4000, 4001 }

RefreshNoOp == [name |-> "init", now |-> <<>>, clock |-> 0]

RefreshInit ==
    /\ resp \in Responses9
    /\ pre = resp
    /\ op = RefreshNoOp
    /\ ret = None
    /\ msg = None
    /\ ctx = Idle
    /\ fs = None

Refresh ==
    \E now \in Nows, clock \in Clock :
        /\ op.name = "init"
        /\ resp' = HTTPResponse_refresh(resp, now, clock)
        /\ pre' = resp
        /\ op' = [name |-> "refresh", now |-> now, clock |-> clock]
        /\ ret' = None
        /\ UNCHANGED <<msg, ctx, fs>>

RefreshNext == Refresh

RefreshSpec == RefreshInit /\ [][RefreshNext]_vars

(***************************************************************************)
(* Vocabulary of the properties.                                           *)
(***************************************************************************)
\* The number of (leftmost, non-overlapping) occurrences of a pattern.
RECURSIVE CountOcc(_, _)
CountOcc(pattern, target) ==
    IF Len(target) < Len(pattern) THEN 0
    ELSE IF \A i \in 1..Len(pattern) : target[i] = pattern[i]
         THEN 1 + CountOcc(pattern, SubSeq(target, Len(pattern) + 1, Len(target)))
         ELSE CountOcc(pattern, Tail(target))

HeaderOcc(pattern, headers) ==
    SumSeq([i \in 1..Len(headers) |-> CountOcc(pattern, headers[i][2])])

\* The header lines as a set, names compared case-insensitively.
HeaderSet(headers) == {<<Lower(headers[i][1]), headers[i][2]>> : i \in 1..Len(headers)}

FirstCE(m) == odict_get_first(m.headers, "content-encoding")

\* The body is a non-empty stream that the codec of the first
\* content-encoding value decodes.
Decodable(m) ==
    /\ Truthy(m.body)
    /\ FirstCE(m) \in ENCODINGS
    /\ encoding_decode(FirstCE(m), m.body.data) # None

Plain(m) == encoding_decode(FirstCE(m), m.body.data)

(***************************************************************************)
(* C1: for a message whose content-encoding is gzip and whose body is a    *)
(* valid gzip stream of a plaintext P, after replace(pattern, repl) the    *)
(* content-encoding value is still exactly gzip and a following decode()   *)
(* succeeds and leaves the body equal to P with the pattern substituted.   *)
(***************************************************************************)
C1_ReplaceKeepsGzip ==
    (/\ op.name = "replace"
     /\ odict_get_all(pre.headers, "content-encoding") = <<gzip>>
     /\ Decodable(pre))
    => /\ odict_get_all(msg.headers, "content-encoding") = <<gzip>>
       /\ MessageMixin_decode(msg).ret
       /\ MessageMixin_decode(msg).msg.body
            = Bytes(safe_subn(op.pattern, op.repl, Plain(pre))[1])

(***************************************************************************)
(* C2: the number replace returns is the number of occurrences of the      *)
(* pattern in the header values of the message before the call plus the    *)
(* number of occurrences in the decoded body.                              *)
(***************************************************************************)
C2_ReplaceCount ==
    (/\ op.name = "replace"
     /\ MessageMixin_get_decoded_content(pre).kind = "bytes")
    => ret = <<"int", HeaderOcc(op.pattern, pre.headers)
                      + CountOcc(op.pattern, MessageMixin_get_decoded_content(pre).data)>>

(***************************************************************************)
(* C3: decode() returns False and leaves body and headers as they were     *)
(* when the body is empty or missing, the first content-encoding value is  *)
(* not a supported encoding, or the codec fails; it returns True only      *)
(* with the body replaced by the decoded bytes and no content-encoding     *)
(* header left.                                                            *)
(***************************************************************************)
C3_DecodeAllOrNothing ==
    op.name = "decode" =>
        /\ (~Decodable(pre)) => (ret = <<"bool", FALSE>> /\ msg = pre)
        /\ Decodable(pre) => ret = <<"bool", TRUE>>
        /\ ret = <<"bool", TRUE>> =>
              /\ msg.body = Bytes(Plain(pre))
              /\ ~odict_in(msg.headers, "content-encoding")
              /\ msg.headers
                   = SelectSeq(pre.headers, LAMBDA h : Lower(h[1]) # "content-encoding")

\* decode() failed in the codec: a supported encoding over a body that is no
\* stream of it, the message left as it was.
C3_Witness ==
    /\ op.name = "decode"
    /\ FirstCE(pre) = gzip
    /\ Truthy(pre.body)
    /\ ~Decodable(pre)
    /\ ret = <<"bool", FALSE>>
    /\ Len(pre.headers) = 2

C5_ContentLength ==
    op.name = "get_state" =>
        LET st == ret[2] IN
        IF op.short
        THEN /\ "contentLength" \in DOMAIN st
             /\ pre.body.kind = "bytes"
                   => st["contentLength"] = <<"int", Len(pre.body.data)>>
             /\ (st["contentLength"] = None) <=> (pre.body = CONTENT_MISSING)
        ELSE "contentLength" \notin DOMAIN st

\* A short snapshot of a message whose body is CONTENT_MISSING.
C5_Witness ==
    /\ op.name = "get_state"
    /\ op.short
    /\ pre.body = CONTENT_MISSING
    /\ ret[2]["contentLength"] = None

(***************************************************************************)
(* C10: when the pattern occurs neither in a header value nor in the       *)
(* (decoded) body, replace returns 0 and leaves the body and the set of    *)
(* header lines as they were.                                              *)
(***************************************************************************)
C10_NoMatchNoChange ==
    (/\ op.name = "replace"
     /\ HeaderOcc(op.pattern, pre.headers) = 0
     /\ CountOcc(op.pattern, pre.body.data) = 0
     /\ Decodable(pre) => CountOcc(op.pattern, Plain(pre)) = 0)
    => /\ ret = <<"int", 0>>
       /\ msg.body = pre.body
       /\ HeaderSet(msg.headers) = HeaderSet(pre.headers)

(***************************************************************************)
(* Vocabulary of the flow properties.                                      *)
(***************************************************************************)
\* The header lists of a flow's request and response (None when absent).
HeadersOf(h, f) ==
    <<IF f.request # 0 THEN h.odicts[h.msgs[f.request].headers] ELSE None,
      IF f.response # 0 THEN h.odicts[h.msgs[f.response].headers] ELSE None>>

Mutation == op.name \in {"decode", "encode", "replace", "flow_replace"}

(***************************************************************************)
(* C6: after f2 = flow.copy(), a header mutation (replace, decode,         *)
(* encode) applied to a message of f2 leaves the headers of flow's         *)
(* request and response as they were, and the other way round; f2's        *)
(* client and server connection references are those of flow.              *)
(***************************************************************************)
C6_CopyIndependent ==
    fs.f2 # NoFlow =>
        /\ fs.f2.client_conn = fs.flow.client_conn
        /\ fs.f2.server_conn = fs.flow.server_conn
        /\ op.name = "copy" =>
              /\ HeadersOf(fs, fs.f2) = HeadersOf(pre, pre.flow)
              /\ HeadersOf(fs, fs.flow) = HeadersOf(pre, pre.flow)
        /\ (Mutation /\ op.side = "f2") =>
              HeadersOf(fs, fs.flow) = HeadersOf(pre, pre.flow)
        /\ (Mutation /\ op.side = "flow" /\ pre.f2 # NoFlow) =>
              HeadersOf(fs, fs.f2) = HeadersOf(pre, pre.f2)

\* A mutation of the copy changed the copy's request headers.
C6_Witness ==
    /\ fs.f2 # NoFlow
    /\ Mutation
    /\ op.side = "f2"
    /\ op.which = "request"
    /\ HeadersOf(fs, fs.f2)[1] # HeadersOf(pre, pre.f2)[1]
    /\ HeadersOf(fs, fs.flow) = HeadersOf(pre, pre.flow)

(***************************************************************************)
(* C7, as stated: match returns True for every flow when it is given no    *)
(* filter (None or empty); for an expression that fails to compile it      *)
(* raises; otherwise it returns the result of the compiled predicate.      *)
(***************************************************************************)
C7_MatchEmptyIsTrue ==
    op.name = "match" =>
        LET f == SideFlow(pre, op.side) IN
        IF op.filt = None \/ op.filt = <<"str", "">>
        THEN ret = <<"bool", TRUE>>
        ELSE IF op.filt[1] = "str"
             THEN IF op.compiled = None
                  THEN ret = <<"raise", "ValueError">>
                  ELSE ret = <<"bool", filt_apply(op.compiled, f)>>
             ELSE ret = <<"bool", filt_apply(op.filt, f)>>

(***************************************************************************)
(* C7, amended: match returns True for every flow when it is given None;   *)
(* every string, the empty one included, is compiled, and match raises     *)
(* ValueError when it fails to compile; otherwise match returns the        *)
(* result of the compiled predicate applied to the flow.                   *)
(***************************************************************************)
C7_Match ==
    op.name = "match" =>
        LET f == SideFlow(pre, op.side) IN
        IF op.filt = None
        THEN ret = <<"bool", TRUE>>
        ELSE IF op.filt[1] = "str"
             THEN IF op.compiled = None
                  THEN ret = <<"raise", "ValueError">>
                  ELSE ret = <<"bool", filt_apply(op.compiled, f)>>
             ELSE ret = <<"bool", filt_apply(op.filt, f)>>

\* An expression that does not compile made match raise.
C7_Witness ==
    /\ op.name = "match"
    /\ op.filt = <<"str", "~invalid[[[">>
    /\ op.compiled = None
    /\ ret = <<"raise", "ValueError">>

(***************************************************************************)
(* C8: flow.replace applies the request's replace, applies the response's  *)
(* replace only when there is a response, and returns the sum of the two   *)
(* counts (an absent response adds 0); the request's replace returns the   *)
(* count of the message replace (headers and body) plus the count of the   *)
(* substitutions in the path.                                              *)
(***************************************************************************)
C8_FlowReplaceSum ==
    /\ (op.name = "flow_replace" /\ ret[1] = "int") =>
          LET f  == SideFlow(pre, op.side)
              rq == Deref(pre, f.request)
              c  == MessageMixin_replace(rq, op.pattern, op.repl)
              pc == CountOcc(op.pattern, rq.path)
          IN  /\ Deref(fs, f.request)
                   = [c.msg EXCEPT !.path = safe_subn(op.pattern, op.repl, rq.path)[1]]
              /\ SideFlow(fs, op.side) = f
              /\ IF f.response # 0
                 THEN LET rc == MessageMixin_replace(Deref(pre, f.response),
                                                     op.pattern, op.repl)
                      IN  /\ ret[2] = c.ret + pc + rc.ret
                          /\ Deref(fs, f.response) = rc.msg
                 ELSE ret[2] = c.ret + pc
    /\ (op.name = "replace" /\ op.which = "request") =>
          LET rq == Deref(pre, SideFlow(pre, op.side).request)
          IN  ret[2] = MessageMixin_replace(rq, op.pattern, op.repl).ret
                       + CountOcc(op.pattern, rq.path)

\* Substitutions in the request's headers, body and path and in the response.
C8_Witness ==
    /\ op.name = "flow_replace"
    /\ ret[1] = "int"
    /\ SideFlow(pre, op.side).response # 0
    /\ LET rq == Deref(pre, SideFlow(pre, op.side).request)
           rs == Deref(pre, SideFlow(pre, op.side).response)
       IN  /\ HeaderOcc(op.pattern, rq.headers) > 0
           /\ CountOcc(op.pattern, rq.path) > 0
           /\ MessageMixin_replace(rs, op.pattern, op.repl).ret > 0
           /\ ret[2] >= 4

(***************************************************************************)
(* C9: for every supplied now, refresh(now) uses delta = now -             *)
(* timestamp_start and rewrites each date, expires and last-modified       *)
(* header whose value parses as a date to the date delta seconds later,    *)
(* leaves such a header whose value does not parse untouched, changes no   *)
(* other non-cookie header and adds no set-cookie header when there was    *)
(* none.                                                                   *)
(***************************************************************************)
C9_RefreshDelta ==
    (op.name = "refresh" /\ op.now # <<>>) =>
        LET delta == op.now[1] - pre.timestamp_start IN
        /\ \A i \in 1..Len(refresh_headers) :
              LET name == refresh_headers[i]
                  old  == odict_get_all(pre.headers, name)
              IN  old # <<>> =>
                    IF old[1].kind = "date"
                    THEN odict_get_all(resp.headers, name)
                           = <<DateStr(old[1].wall - old[1].tz + delta, 0)>>
                    ELSE odict_get_all(resp.headers, name) = old
        /\ odict_get_all(resp.headers, "x-a") = odict_get_all(pre.headers, "x-a")
        /\ odict_get_all(pre.headers, "set-cookie") = <<>>
              => odict_get_all(resp.headers, "set-cookie") = <<>>

====
